---- MODULE Spec2Model ----
(***************************************************************************)
(* Model of the caste classifier (zeth/caste): classify_caste, its helper  *)
(* tables and caste_name, as built from caste.hpp and the library source.  *)
(*                                                                         *)
(* uint64_t quantities are kept at their full 64-bit width as three limbs  *)
(* <<hi, mid, lo>> = hi * 2^40 + mid * 2^20 + lo (hi < 2^24, mid, lo <     *)
(* 2^20), so that byte-exact thresholds and the maximum uint64_t can be    *)
(* represented.                                                            *)
(***************************************************************************)
EXTENDS Integers, Sequences, FiniteSets, TLC

VARIABLES hw, out, pc, word, frame, outv, log, ncalls,
          platform, env, gpus, best, printed

\* the state of a detection run: the platform of the build, what the
\* operating system reports, the GPU candidates, the chosen one, the word
detvars == <<platform, env, gpus, best, printed>>

vars == <<hw, out, pc, word, frame, outv, log, ncalls,
          platform, env, gpus, best, printed>>

(***************************************************************************)
(* Bounds of the model.                                                    *)
(***************************************************************************)
MaxCores == 6
MaxThreads == 12
MaxCalls == 3

(***************************************************************************)
(* uint64_t arithmetic on limbs.                                           *)
(***************************************************************************)
HiMod == 2^24
LimbMod == 2^20

U64(h, m, l) == <<h, m, l>>

U64Zero == U64(0, 0, 0)
U64One == U64(0, 0, 1)
U64Max == U64(HiMod - 1, LimbMod - 1, LimbMod - 1)

Lt(a, b) ==
    \/ a[1] < b[1]
    \/ a[1] = b[1] /\ a[2] < b[2]
    \/ a[1] = b[1] /\ a[2] = b[2] /\ a[3] < b[3]

Ge(a, b) == ~Lt(a, b)

\* a + b modulo 2^64
Add(a, b) ==
    LET s3 == a[3] + b[3]
        c3 == s3 \div LimbMod
        s2 == a[2] + b[2] + c3
        c2 == s2 \div LimbMod
        s1 == a[1] + b[1] + c2
    IN  U64(s1 % HiMod, s2 % LimbMod, s3 % LimbMod)

\* a - b modulo 2^64
Sub(a, b) ==
    LET d3 == a[3] - b[3]
        b3 == IF d3 < 0 THEN 1 ELSE 0
        d2 == a[2] - b[2] - b3
        b2 == IF d2 < 0 THEN 1 ELSE 0
        d1 == a[1] - b[1] - b2
    IN  U64((d1 + HiMod) % HiMod, (d2 + LimbMod) % LimbMod, (d3 + LimbMod) % LimbMod)

\* x * 1024 * 1024 modulo 2^64, for x a count of MiB
MiB(x) == U64((x \div LimbMod) % HiMod, x % LimbMod, 0)

\* x * 1024 * 1024 * 1024 modulo 2^64
GiB(x) == MiB(x * 1024)

\* variant: tolerance of 1 GiB instead of 512 MiB
ram_user_floor_bytes_low == Sub(GiB(8), MiB(1024))

\* variant: no tolerance for reserved memory
ram_user_floor_bytes_legacy == GiB(8)

\* variant: no floor at all
ram_user_floor_bytes_none == U64Zero

ram_user_floor_bytes == Sub(GiB(8), MiB(512))

(***************************************************************************)
(* enum class Caste, enum class GpuKind (underlying int values).           *)
(***************************************************************************)
Mini == 0
User == 1
Developer == 2
Workstation == 3
Rig == 4

Caste == {Mini, User, Developer, Workstation, Rig}

GpuNone == 0
Integrated == 1
Unified == 2
Discrete == 3

GpuKind == {GpuNone, Integrated, Unified, Discrete}

\* HwFacts{} : the default member initialisers
HwFacts0 ==
    [ram_bytes |-> U64Zero, physical_cores |-> 0, logical_threads |-> 0,
     gpu_kind |-> GpuNone, vram_bytes |-> U64Zero, has_discrete_gpu |-> FALSE,
     is_apple_silicon |-> FALSE, is_intel_arc |-> FALSE]

\* CasteResult{} : caste = Mini, empty reason.  The reason string is kept as
\* the sequence of the literals concatenated into it.
CasteResult0 == [caste |-> Mini, reason |-> <<>>]

(***************************************************************************)
(* Helper tables.                                                          *)
(***************************************************************************)
min_caste(a, b) == IF a < b THEN a ELSE b

max_caste(a, b) == IF a > b THEN a ELSE b

\* variant: thresholds exclusive at their lower bound
caste_from_vram_strict(vram_bytes) ==
    IF Lt(GiB(24), vram_bytes) THEN Rig
    ELSE IF Lt(GiB(16), vram_bytes) THEN Workstation
    ELSE IF Lt(GiB(6), vram_bytes) THEN Developer
    ELSE IF Lt(GiB(2), vram_bytes) THEN User
    ELSE Mini

\* variant: the results of the two upper tiers exchanged
caste_from_vram_swapped(vram_bytes) ==
    IF Ge(vram_bytes, GiB(24)) THEN Workstation
    ELSE IF Ge(vram_bytes, GiB(16)) THEN Rig
    ELSE IF Ge(vram_bytes, GiB(6)) THEN Developer
    ELSE IF Ge(vram_bytes, GiB(2)) THEN User
    ELSE Mini

caste_from_vram(vram_bytes) ==
    IF Ge(vram_bytes, GiB(24)) THEN Rig
    ELSE IF Ge(vram_bytes, GiB(16)) THEN Workstation
    ELSE IF Ge(vram_bytes, GiB(6)) THEN Developer
    ELSE IF Ge(vram_bytes, GiB(2)) THEN User
    ELSE Mini

\* variant: the 16-23 GiB band rated Developer
ram_cap_loose(ram_bytes) ==
    IF Lt(ram_bytes, ram_user_floor_bytes) THEN Mini
    ELSE IF Lt(ram_bytes, GiB(16)) THEN User
    ELSE IF Lt(ram_bytes, GiB(32)) THEN Developer
    ELSE IF Lt(ram_bytes, GiB(64)) THEN Workstation
    ELSE Rig

\* variant: the results of the 24 GiB and 32 GiB bands exchanged
ram_cap_swapped(ram_bytes) ==
    IF Lt(ram_bytes, ram_user_floor_bytes) THEN Mini
    ELSE IF Lt(ram_bytes, GiB(16)) THEN User
    ELSE IF Lt(ram_bytes, GiB(24)) THEN User
    ELSE IF Lt(ram_bytes, GiB(32)) THEN Workstation
    ELSE IF Lt(ram_bytes, GiB(64)) THEN Developer
    ELSE Rig

ram_cap(ram_bytes) ==
    IF Lt(ram_bytes, ram_user_floor_bytes) THEN Mini
    ELSE IF Lt(ram_bytes, GiB(16)) THEN User
    ELSE IF Lt(ram_bytes, GiB(24)) THEN User
    ELSE IF Lt(ram_bytes, GiB(32)) THEN Developer
    ELSE IF Lt(ram_bytes, GiB(64)) THEN Workstation
    ELSE Rig

\* variant: the 4c/8t "User floor" band missing
cpu_cap_nouser(physical_cores, logical_threads) ==
    LET cores == IF physical_cores > 0 THEN physical_cores ELSE 0
        threads == logical_threads
    IN  IF (cores > 0 /\ cores < 4) \/ (cores = 0 /\ threads > 0 /\ threads < 8)
        THEN Mini
        ELSE Rig

\* variant: the thread thresholds not doubled
cpu_cap_same_thresholds(physical_cores, logical_threads) ==
    LET cores == IF physical_cores > 0 THEN physical_cores ELSE 0
        threads == logical_threads
    IN  IF (cores > 0 /\ cores < 4) \/ (cores = 0 /\ threads > 0 /\ threads < 4)
        THEN Mini
        ELSE IF (cores > 0 /\ cores < 6) \/ (cores = 0 /\ threads > 0 /\ threads < 6)
        THEN User
        ELSE Rig

\* variant: unknown counts fall into the lowest thread band
cpu_cap_unknown_mini(physical_cores, logical_threads) ==
    LET cores == IF physical_cores > 0 THEN physical_cores ELSE 0
        threads == logical_threads
    IN  IF (cores > 0 /\ cores < 4) \/ (cores = 0 /\ threads < 8)
        THEN Mini
        ELSE IF (cores > 0 /\ cores < 6) \/ (cores = 0 /\ threads > 0 /\ threads < 12)
        THEN User
        ELSE Rig

\* variant: the comparisons of the upper band reversed
cpu_cap_reversed(physical_cores, logical_threads) ==
    LET cores == IF physical_cores > 0 THEN physical_cores ELSE 0
        threads == logical_threads
    IN  IF (cores > 0 /\ cores < 4) \/ (cores = 0 /\ threads > 0 /\ threads < 8)
        THEN Mini
        ELSE IF (cores > 0 /\ cores >= 6) \/ (cores = 0 /\ threads > 0 /\ threads >= 12)
        THEN User
        ELSE Rig

cpu_cap(physical_cores, logical_threads) ==
    LET cores == IF physical_cores > 0 THEN physical_cores ELSE 0
        threads == logical_threads
    IN  IF (cores > 0 /\ cores < 4) \/ (cores = 0 /\ threads > 0 /\ threads < 8)
        THEN Mini
        ELSE IF (cores > 0 /\ cores < 6) \/ (cores = 0 /\ threads > 0 /\ threads < 12)
        THEN User
        ELSE Rig

\* variant: a case label copied without changing its string
caste_name_dup(t) ==
    CASE t = Mini -> "Mini"
      [] t = User -> "User"
      [] t = Developer -> "Developer"
      [] t = Workstation -> "Developer"
      [] t = Rig -> "Rig"
      [] OTHER -> "Unknown"

\* variant: the last case of the switch missing
caste_name_missing(t) ==
    CASE t = Mini -> "Mini"
      [] t = User -> "User"
      [] t = Developer -> "Developer"
      [] t = Workstation -> "Workstation"
      [] OTHER -> "Unknown"

caste_name(t) ==
    CASE t = Mini -> "Mini"
      [] t = User -> "User"
      [] t = Developer -> "Developer"
      [] t = Workstation -> "Workstation"
      [] t = Rig -> "Rig"
      [] OTHER -> "Unknown"

(***************************************************************************)
(* classify_caste, statement by statement.  A frame holds the argument     *)
(* (hw), the result under construction (out), the locals declared so far   *)
(* and the position in the function body (pc).                             *)
(***************************************************************************)
\* entry: CasteResult out;
classify_enter(h) == [hw |-> h, out |-> CasteResult0, pc |-> "floor"]

\* variant: the floor branch without its return
classify_floor_fallthrough(f) ==
    IF Lt(f.hw.ram_bytes, ram_user_floor_bytes)
    THEN [f EXCEPT !.out = [caste |-> Mini, reason |-> <<"RAM < ~7.5GB">>],
                   !.pc = "base"]
    ELSE [f EXCEPT !.pc = "base"]

\* 0) Absolute floor
classify_floor(f) ==
    IF Lt(f.hw.ram_bytes, ram_user_floor_bytes)
    THEN [f EXCEPT !.out = [caste |-> Mini, reason |-> <<"RAM < ~7.5GB">>],
                   !.pc = "ret"]
    ELSE [f EXCEPT !.pc = "base"]

\* variant: unified-memory RAM tiers exclusive at their lower bound
classify_base_strict(f) ==
    LET h == f.hw
        base == IF h.gpu_kind = Discrete \/ h.has_discrete_gpu
                THEN caste_from_vram(h.vram_bytes)
                ELSE IF h.is_apple_silicon \/ h.gpu_kind = Unified
                THEN IF Lt(GiB(64), h.ram_bytes) THEN Rig
                     ELSE IF Lt(GiB(32), h.ram_bytes) THEN Workstation
                     ELSE IF Lt(GiB(24), h.ram_bytes) THEN Developer
                     ELSE User
                ELSE User
        label == IF h.gpu_kind = Discrete \/ h.has_discrete_gpu
                 THEN "discrete GPU VRAM caste"
                 ELSE IF h.is_apple_silicon \/ h.gpu_kind = Unified
                 THEN "unified memory (Apple Silicon) caste by RAM"
                 ELSE IF h.gpu_kind = Integrated THEN "integrated GPU caste"
                 ELSE "no discrete GPU detected"
    IN  [f EXCEPT !.out.reason = <<label>>, !.pc = "arc"] @@ [base |-> base]

\* variant: the unified-memory rule tested before the discrete one
classify_base_unified_first(f) ==
    LET h == f.hw
        base == IF h.is_apple_silicon \/ h.gpu_kind = Unified
                THEN IF Ge(h.ram_bytes, GiB(64)) THEN Rig
                     ELSE IF Ge(h.ram_bytes, GiB(32)) THEN Workstation
                     ELSE IF Ge(h.ram_bytes, GiB(24)) THEN Developer
                     ELSE User
                ELSE IF h.gpu_kind = Discrete \/ h.has_discrete_gpu
                THEN caste_from_vram(h.vram_bytes)
                ELSE IF h.gpu_kind = Integrated THEN User
                ELSE User
        label == IF h.is_apple_silicon \/ h.gpu_kind = Unified
                 THEN "unified memory (Apple Silicon) caste by RAM"
                 ELSE IF h.gpu_kind = Discrete \/ h.has_discrete_gpu
                 THEN "discrete GPU VRAM caste"
                 ELSE IF h.gpu_kind = Integrated THEN "integrated GPU caste"
                 ELSE "no discrete GPU detected"
    IN  [f EXCEPT !.out.reason = <<label>>, !.pc = "arc"] @@ [base |-> base]

\* variant: an integrated GPU rated by RAM like unified memory
classify_base_integrated_by_ram(f) ==
    LET h == f.hw
        base == IF h.gpu_kind = Discrete \/ h.has_discrete_gpu
                THEN caste_from_vram(h.vram_bytes)
                ELSE IF h.is_apple_silicon \/ h.gpu_kind = Unified
                THEN IF Ge(h.ram_bytes, GiB(64)) THEN Rig
                     ELSE IF Ge(h.ram_bytes, GiB(32)) THEN Workstation
                     ELSE IF Ge(h.ram_bytes, GiB(24)) THEN Developer
                     ELSE User
                ELSE IF h.gpu_kind = Integrated
                THEN IF Ge(h.ram_bytes, GiB(64)) THEN Rig
                     ELSE IF Ge(h.ram_bytes, GiB(32)) THEN Workstation
                     ELSE IF Ge(h.ram_bytes, GiB(24)) THEN Developer
                     ELSE User
                ELSE User
        label == IF h.gpu_kind = Discrete \/ h.has_discrete_gpu
                 THEN "discrete GPU VRAM caste"
                 ELSE IF h.is_apple_silicon \/ h.gpu_kind = Unified
                 THEN "unified memory (Apple Silicon) caste by RAM"
                 ELSE IF h.gpu_kind = Integrated THEN "integrated GPU caste"
                 ELSE "no discrete GPU detected"
    IN  [f EXCEPT !.out.reason = <<label>>, !.pc = "arc"] @@ [base |-> base]

\* 1) Base caste by GPU/memory model
classify_base(f) ==
    LET h == f.hw
        base == IF h.gpu_kind = Discrete \/ h.has_discrete_gpu
                THEN caste_from_vram(h.vram_bytes)
                ELSE IF h.is_apple_silicon \/ h.gpu_kind = Unified
                THEN IF Ge(h.ram_bytes, GiB(64)) THEN Rig
                     ELSE IF Ge(h.ram_bytes, GiB(32)) THEN Workstation
                     ELSE IF Ge(h.ram_bytes, GiB(24)) THEN Developer
                     ELSE User
                ELSE IF h.gpu_kind = Integrated THEN User
                ELSE User
        label == IF h.gpu_kind = Discrete \/ h.has_discrete_gpu
                 THEN "discrete GPU VRAM caste"
                 ELSE IF h.is_apple_silicon \/ h.gpu_kind = Unified
                 THEN "unified memory (Apple Silicon) caste by RAM"
                 ELSE IF h.gpu_kind = Integrated THEN "integrated GPU caste"
                 ELSE "no discrete GPU detected"
    IN  [f EXCEPT !.out.reason = <<label>>, !.pc = "arc"] @@ [base |-> base]

\* variant: the Arc step tests has_discrete_gpu only
classify_arc_flag_only(f) ==
    LET h == f.hw
    IN  IF ~h.has_discrete_gpu /\ h.is_intel_arc
        THEN IF Ge(h.ram_bytes, GiB(16))
             THEN [f EXCEPT !.base = max_caste(f.base, Developer),
                            !.out.reason = Append(@, "; Arc-class iGPU with >=16GB RAM => Developer floor"),
                            !.pc = "ram"]
             ELSE [f EXCEPT !.out.reason = Append(@, "; Arc-class iGPU but <16GB RAM => no bump"),
                            !.pc = "ram"]
        ELSE [f EXCEPT !.pc = "ram"]

\* variant: the Arc step assigns Developer
classify_arc_assign(f) ==
    LET h == f.hw
    IN  IF ~h.has_discrete_gpu /\ h.gpu_kind # Discrete /\ h.is_intel_arc
        THEN IF Ge(h.ram_bytes, GiB(16))
             THEN [f EXCEPT !.base = Developer,
                            !.out.reason = Append(@, "; Arc-class iGPU with >=16GB RAM => Developer floor"),
                            !.pc = "ram"]
             ELSE [f EXCEPT !.out.reason = Append(@, "; Arc-class iGPU but <16GB RAM => no bump"),
                            !.pc = "ram"]
        ELSE [f EXCEPT !.pc = "ram"]

\* variant: the Arc step ignores the discrete signal
classify_arc_always(f) ==
    LET h == f.hw
    IN  IF h.is_intel_arc
        THEN IF Ge(h.ram_bytes, GiB(16))
             THEN [f EXCEPT !.base = max_caste(f.base, Developer),
                            !.out.reason = Append(@, "; Arc-class iGPU with >=16GB RAM => Developer floor"),
                            !.pc = "ram"]
             ELSE [f EXCEPT !.out.reason = Append(@, "; Arc-class iGPU but <16GB RAM => no bump"),
                            !.pc = "ram"]
        ELSE [f EXCEPT !.pc = "ram"]

\* variant: the Arc bump starts at 32 GiB
classify_arc_late(f) ==
    LET h == f.hw
    IN  IF ~h.has_discrete_gpu /\ h.gpu_kind # Discrete /\ h.is_intel_arc
        THEN IF Ge(h.ram_bytes, GiB(32))
             THEN [f EXCEPT !.base = max_caste(f.base, Developer),
                            !.out.reason = Append(@, "; Arc-class iGPU with >=16GB RAM => Developer floor"),
                            !.pc = "ram"]
             ELSE [f EXCEPT !.out.reason = Append(@, "; Arc-class iGPU but <16GB RAM => no bump"),
                            !.pc = "ram"]
        ELSE [f EXCEPT !.pc = "ram"]

\* 2) Intel Arc special-case
classify_arc(f) ==
    LET h == f.hw
    IN  IF ~h.has_discrete_gpu /\ h.gpu_kind # Discrete /\ h.is_intel_arc
        THEN IF Ge(h.ram_bytes, GiB(16))
             THEN [f EXCEPT !.base = max_caste(f.base, Developer),
                            !.out.reason = Append(@, "; Arc-class iGPU with >=16GB RAM => Developer floor"),
                            !.pc = "ram"]
             ELSE [f EXCEPT !.out.reason = Append(@, "; Arc-class iGPU but <16GB RAM => no bump"),
                            !.pc = "ram"]
        ELSE [f EXCEPT !.pc = "ram"]

\* 3) Clamp by RAM
classify_ram_clamp(f) ==
    LET cap_ram == ram_cap(f.hw.ram_bytes)
    IN  [f EXCEPT !.pc = "cpu"]
            @@ [cap_ram |-> cap_ram, capped |-> min_caste(f.base, cap_ram)]

\* variant: the CPU clamp starts from the base and drops the RAM clamp
classify_cpu_clamp_from_base(f) ==
    LET cap_cpu == cpu_cap(f.hw.physical_cores, f.hw.logical_threads)
    IN  [f EXCEPT !.capped = min_caste(f.base, cap_cpu), !.pc = "restore"]
            @@ [cap_cpu |-> cap_cpu]

\* 4) Gentle CPU sanity clamp
classify_cpu_clamp(f) ==
    LET cap_cpu == cpu_cap(f.hw.physical_cores, f.hw.logical_threads)
    IN  [f EXCEPT !.capped = min_caste(f.capped, cap_cpu), !.pc = "restore"]
            @@ [cap_cpu |-> cap_cpu]

\* variant: no restoration of the User floor
classify_restore_none(f) ==
    [f EXCEPT !.out.caste = f.capped, !.pc = "reason"]

\* 5) User floor restoration, then out.caste = capped
classify_restore(f) ==
    LET capped == IF Ge(f.hw.ram_bytes, ram_user_floor_bytes)
                  THEN max_caste(f.capped, User)
                  ELSE f.capped
    IN  [f EXCEPT !.capped = capped, !.out.caste = capped, !.pc = "reason"]

\* variant: a cap is mentioned only when it lowered the value
classify_reason_only_if_lowered(f) ==
    LET r1 == IF f.cap_ram < f.base
              THEN Append(f.out.reason, "; RAM cap applied")
              ELSE f.out.reason
        r2 == IF f.cap_cpu < f.base THEN Append(r1, "; CPU cap applied") ELSE r1
    IN  [f EXCEPT !.out.reason = r2, !.pc = "ret"]

\* reason string with caps applied
classify_reason(f) ==
    LET r1 == IF f.cap_ram # Rig
              THEN Append(f.out.reason, "; RAM cap applied")
              ELSE f.out.reason
        r2 == IF f.cap_cpu # Rig THEN Append(r1, "; CPU cap applied") ELSE r1
    IN  [f EXCEPT !.out.reason = r2, !.pc = "ret"]

classify_step(f) ==
    CASE f.pc = "floor" -> classify_floor(f)
      [] f.pc = "base" -> classify_base(f)
      [] f.pc = "arc" -> classify_arc(f)
      [] f.pc = "ram" -> classify_ram_clamp(f)
      [] f.pc = "cpu" -> classify_cpu_clamp(f)
      [] f.pc = "restore" -> classify_restore(f)
      [] f.pc = "reason" -> classify_reason(f)

RECURSIVE classify_run(_)
classify_run(f) == IF f.pc = "ret" THEN f ELSE classify_run(classify_step(f))

\* CasteResult classify_caste(const HwFacts& hw)
classify_caste(h) == classify_run(classify_enter(h)).out

(***************************************************************************)
(* Inputs: every threshold of the tables and the value one byte below it,  *)
(* zero and the largest uint64_t; for the core and thread counts a         *)
(* negative value, zero, both sides of every threshold of cpu_cap and the  *)
(* counts above the last threshold up to the bounds.                       *)
(***************************************************************************)
Around(t) == {Sub(t, U64One), t}

RamSamples ==
    {U64Zero, U64Max} \cup Around(ram_user_floor_bytes) \cup Around(GiB(16))
        \cup Around(GiB(24)) \cup Around(GiB(32)) \cup Around(GiB(64))

VramSamples ==
    {U64Zero, U64Max} \cup Around(GiB(2)) \cup Around(GiB(6))
        \cup Around(GiB(16)) \cup Around(GiB(24))

CoreSamples == {-1, 0, 1, 3, 4, 5} \cup (6 .. MaxCores)

ThreadSamples == {-1, 0, 1, 7, 8, 11} \cup (12 .. MaxThreads)

HwFactsSet ==
    [ram_bytes : RamSamples, physical_cores : CoreSamples,
     logical_threads : ThreadSamples, gpu_kind : GpuKind,
     vram_bytes : VramSamples, has_discrete_gpu : BOOLEAN,
     is_apple_silicon : BOOLEAN, is_intel_arc : BOOLEAN]

\* The arguments of the concurrent callers: one fact record per caste, from
\* the records of tests/test_classify.cpp, the default record and an
\* Arc-class integrated GPU.
base_hw ==
    [HwFacts0 EXCEPT !.ram_bytes = GiB(64), !.physical_cores = 8,
                     !.logical_threads = 16, !.gpu_kind = Discrete,
                     !.has_discrete_gpu = TRUE]

CallInputs ==
    { HwFacts0,
      [base_hw EXCEPT !.vram_bytes = GiB(6)],
      [base_hw EXCEPT !.vram_bytes = GiB(24)],
      [HwFacts0 EXCEPT !.ram_bytes = GiB(32), !.physical_cores = 8,
                       !.logical_threads = 16, !.gpu_kind = Unified,
                       !.is_apple_silicon = TRUE],
      [HwFacts0 EXCEPT !.ram_bytes = GiB(16), !.physical_cores = 8,
                       !.logical_threads = 16, !.gpu_kind = Integrated,
                       !.is_intel_arc = TRUE] }

Threads == {"t1", "t2"}

\* no detection run takes place: the caller supplies the fact record
NoDetection ==
    /\ platform = "none"
    /\ env = <<>>
    /\ gpus = <<>>
    /\ best = <<>>
    /\ printed = ""

Init ==
    /\ hw \in HwFactsSet
    /\ out = CasteResult0
    /\ pc = "start"
    /\ word = [t \in Threads |-> ""]
    /\ frame = [t \in Threads |-> [pc |-> "idle"]]
    /\ outv = [t \in Threads |-> CasteResult0]
    /\ log = {}
    /\ ncalls = 0
    /\ NoDetection

(***************************************************************************)
(* Single call: the caller holds a fact record and applies classify_caste. *)
(***************************************************************************)
Classify ==
    /\ pc = "start"
    /\ out' = classify_caste(hw)
    /\ pc' = "done"
    /\ UNCHANGED <<hw, word, frame, outv, log, ncalls>>
    /\ UNCHANGED detvars

Next == Classify

Spec == Init /\ [][Next]_vars

\* The same single calls, for the properties that compare the result with
\* the result of a second call on a record that differs in one field.
SpecPairs == Init /\ [][Next]_vars

(***************************************************************************)
(* Concurrent callers: each thread calls classify_caste on a record of its *)
(* own and runs the body one statement at a time, interleaved with the     *)
(* other thread; the caller then prints caste_name of the result, as main  *)
(* does.  The object `out` of an invocation lives in outv[out_storage(t)]. *)
(***************************************************************************)
\* variant: `static CasteResult out;`, one object for all invocations
out_storage_static(t) == "t1"

\* `CasteResult out;` has automatic storage: one object per invocation
out_storage(t) == t

BodyPcs == {"floor", "base", "arc", "ram", "cpu", "restore", "reason"}

WithOut(f, o) ==
    [x \in DOMAIN f \cup {"out"} |-> IF x = "out" THEN o ELSE f[x]]

WithoutOut(f) == [x \in DOMAIN f \ {"out"} |-> f[x]]

InitCalls ==
    /\ hw = HwFacts0
    /\ out = CasteResult0
    /\ pc = "threads"
    /\ word = [t \in Threads |-> ""]
    /\ frame = [t \in Threads |-> [pc |-> "idle"]]
    /\ outv = [t \in Threads |-> CasteResult0]
    /\ log = {}
    /\ ncalls = 0
    /\ NoDetection

Call(t) ==
    /\ frame[t].pc \in {"idle", "named"}
    /\ ncalls < MaxCalls
    /\ \E h \in CallInputs :
         LET f == classify_enter(h)
         IN  /\ frame' = [frame EXCEPT ![t] =
                            WithoutOut(f) @@ [arg |-> h, id |-> ncalls + 1]]
             /\ outv' = [outv EXCEPT ![out_storage(t)] = f.out]
    /\ ncalls' = ncalls + 1
    /\ UNCHANGED <<hw, out, pc, word, log>>
    /\ UNCHANGED detvars

Step(t) ==
    /\ frame[t].pc \in BodyPcs
    /\ LET g == classify_step(WithOut(frame[t], outv[out_storage(t)]))
       IN  /\ frame' = [frame EXCEPT ![t] = WithoutOut(g)]
           /\ outv' = [outv EXCEPT ![out_storage(t)] = g.out]
    /\ UNCHANGED <<hw, out, pc, word, log, ncalls>>
    /\ UNCHANGED detvars

Return(t) ==
    /\ frame[t].pc = "ret"
    /\ LET r == outv[out_storage(t)]
       IN  /\ log' = log \cup {[id |-> frame[t].id, arg |-> frame[t].arg,
                                hw |-> frame[t].hw, out |-> r]}
           /\ frame' = [frame EXCEPT ![t] = [pc |-> "name", result |-> r]]
    /\ UNCHANGED <<hw, out, pc, word, outv, ncalls>>
    /\ UNCHANGED detvars

Name(t) ==
    /\ frame[t].pc = "name"
    /\ word' = [word EXCEPT ![t] = caste_name(frame[t].result.caste)]
    /\ frame' = [frame EXCEPT ![t].pc = "named"]
    /\ UNCHANGED <<hw, out, pc, outv, log, ncalls>>
    /\ UNCHANGED detvars

NextCalls == \E t \in Threads : Call(t) \/ Step(t) \/ Return(t) \/ Name(t)

SpecCalls == InitCalls /\ [][NextCalls]_vars

(***************************************************************************)
(* The platform adapters: each fill_hw_facts_platform enumerates the GPU   *)
(* candidates of the machine, picks the best one and fills a fact record.  *)
(* What the operating system reports is the record `env`: the memory size, *)
(* the CPU counts, the display devices in enumeration order, the VRAM      *)
(* figure NVML returns (Linux) and hw.optional.arm64 (macOS).              *)
(***************************************************************************)
MaxGpus == 2

VendorNvidia == 4318
VendorAmd == 4098
VendorIntel == 32902

MinU64(a, b) == IF Lt(b, a) THEN b ELSE a

MaxU64(a, b) == IF Lt(a, b) THEN b ELSE a

\* the value of a uint64_t below 2^31 as an integer
ToInt(a) == a[2] * LimbMod + a[3]

U64OfInt(n) == U64(0, n \div LimbMod, n % LimbMod)

\* variant: the comparison of std::max_element reversed
RECURSIVE max_element_reversed_scan(_, _, _)
max_element_reversed_scan(scores, largest, i) ==
    IF i > Len(scores) THEN largest
    ELSE max_element_reversed_scan(
             scores, IF scores[i] < scores[largest] THEN i ELSE largest, i + 1)

max_element_reversed(scores) == max_element_reversed_scan(scores, 1, 2)

\* std::max_element over a non-empty range: the index of the first element
\* no later element is greater than
RECURSIVE max_element_scan(_, _, _)
max_element_scan(scores, largest, i) ==
    IF i > Len(scores) THEN largest
    ELSE max_element_scan(
             scores, IF scores[largest] < scores[i] THEN i ELSE largest, i + 1)

max_element(scores) == max_element_scan(scores, 1, 2)

\* (id & 0xFF00) >> 8 is 0x56 or 0x57
intel_arc_device_heuristic(device_id) ==
    LET hi == (device_id \div 256) % 256
    IN  hi = 86 \/ hi = 87

\* the `score` lambda of pick_best_gpu on Linux and Windows
score_pci(g) ==
    (IF g.is_discrete_hint THEN 1000000000 ELSE 0)
    + ToInt(MinU64(g.vram_bytes, U64OfInt(999000000)))
    + (IF g.vendor = VendorNvidia THEN 10000 ELSE 0)
    + (IF g.vendor = VendorAmd THEN 5000 ELSE 0)
    + (IF g.vendor = VendorIntel THEN 1000 ELSE 0)
    + (IF g.is_intel_arc_hint THEN 2000 ELSE 0)

\* the `score` lambda of pick_best_gpu on macOS
score_mac(g) ==
    (IF g.is_discrete_hint THEN 1000000000 ELSE 0)
    + ToInt(MinU64(g.vram_bytes, U64OfInt(999000000)))
    + (IF g.vendor = VendorNvidia THEN 10000 ELSE 0)
    + (IF g.vendor = VendorAmd THEN 5000 ELSE 0)
    + (IF g.vendor = VendorIntel THEN 1000 ELSE 0)

\* variant: a virtual penalty larger than the discrete weight
score_bsd_heavy_penalty(g) ==
    (IF g.is_discrete_hint THEN 1000 ELSE 0)
    + (IF g.is_intel_arc_hint THEN 100 ELSE 0)
    - (IF g.is_virtual_hint THEN 1500 ELSE 0)

\* the `score` lambda of bsd_common::pick_best_gpu
score_bsd(g) ==
    (IF g.is_discrete_hint THEN 1000 ELSE 0)
    + (IF g.is_intel_arc_hint THEN 100 ELSE 0)
    - (IF g.is_virtual_hint THEN 500 ELSE 0)

GpuCandidate0 ==
    [vendor |-> 0, device |-> 0, is_discrete_hint |-> FALSE,
     is_intel_arc_hint |-> FALSE, vram_bytes |-> U64Zero]

GpuCandidateMac0 ==
    [vendor |-> 0, device |-> 0, is_discrete_hint |-> FALSE,
     vram_bytes |-> U64Zero]

GpuCandidateBsd0 ==
    [is_discrete_hint |-> FALSE, is_virtual_hint |-> FALSE,
     is_intel_arc_hint |-> FALSE]

pick_best_gpu_linux(gs) ==
    IF gs = <<>> THEN GpuCandidate0
    ELSE gs[max_element([i \in 1 .. Len(gs) |-> score_pci(gs[i])])]

pick_best_gpu_windows(gs) ==
    IF gs = <<>> THEN GpuCandidate0
    ELSE gs[max_element([i \in 1 .. Len(gs) |-> score_pci(gs[i])])]

pick_best_gpu_mac(gs) ==
    IF gs = <<>> THEN GpuCandidateMac0
    ELSE gs[max_element([i \in 1 .. Len(gs) |-> score_mac(gs[i])])]

pick_best_gpu_bsd(gs) ==
    IF gs = <<>> THEN GpuCandidateBsd0
    ELSE gs[max_element([i \in 1 .. Len(gs) |-> score_bsd(gs[i])])]

\* Linux: one candidate per /sys/class/drm/card* whose vendor file reads
\* non-zero; d.vram is the content of mem_info_vram_total (0 when absent)
enumerate_gpus_sysfs(devs) ==
    LET kept == SelectSeq(devs, LAMBDA d : d.vendor # 0)
        candidate(d) ==
            LET g == [GpuCandidate0 EXCEPT !.vendor = d.vendor,
                                           !.device = d.device]
            IN  IF d.vendor = VendorNvidia
                THEN [g EXCEPT !.is_discrete_hint = TRUE]
                ELSE IF d.vendor = VendorAmd
                THEN IF Lt(U64Zero, d.vram)
                     THEN [g EXCEPT !.vram_bytes = d.vram,
                                    !.is_discrete_hint = TRUE]
                     ELSE [g EXCEPT !.is_discrete_hint = FALSE]
                ELSE IF d.vendor = VendorIntel
                THEN [g EXCEPT !.is_discrete_hint = FALSE,
                               !.is_intel_arc_hint =
                                   intel_arc_device_heuristic(d.device)]
                ELSE g
    IN  [i \in 1 .. Len(kept) |-> candidate(kept[i])]

has_vendor(gs, vendor) == \E i \in 1 .. Len(gs) : gs[i].vendor = vendor

\* Linux: the candidates after the NVML figure has been attached to the
\* NVIDIA ones
gpus_linux(e) ==
    LET gs == enumerate_gpus_sysfs(e.devices)
        nvidia_vram_best ==
            IF has_vendor(gs, VendorNvidia) THEN e.nvml ELSE U64Zero
    IN  IF Lt(U64Zero, nvidia_vram_best)
        THEN [i \in 1 .. Len(gs) |->
                 IF gs[i].vendor = VendorNvidia
                 THEN [gs[i] EXCEPT
                          !.vram_bytes = MaxU64(@, nvidia_vram_best),
                          !.is_discrete_hint = TRUE]
                 ELSE gs[i]]
        ELSE gs

\* the record `HwFacts hw{}` after the memory and CPU probes
probed_hw(e) ==
    [HwFacts0 EXCEPT !.ram_bytes = e.ram, !.physical_cores = e.cores,
                     !.logical_threads = e.threads]

fill_hw_facts_platform_linux(e) ==
    LET h == probed_hw(e)
        gs == gpus_linux(e)
        b == pick_best_gpu_linux(gs)
    IN  IF gs = <<>>
        THEN [h EXCEPT !.gpu_kind = GpuNone, !.has_discrete_gpu = FALSE,
                       !.vram_bytes = U64Zero, !.is_intel_arc = FALSE]
        ELSE LET h1 == [h EXCEPT !.is_intel_arc =
                           (b.vendor = VendorIntel) /\ b.is_intel_arc_hint]
             IN  IF b.is_discrete_hint
                 THEN [h1 EXCEPT !.gpu_kind = Discrete,
                                 !.has_discrete_gpu = TRUE,
                                 !.vram_bytes = b.vram_bytes]
                 ELSE [h1 EXCEPT !.gpu_kind = Integrated,
                                 !.has_discrete_gpu = FALSE,
                                 !.vram_bytes = U64Zero]

\* variant: an Intel adapter with dedicated memory gets the discrete hint
enumerate_gpus_dxgi_intel_by_vram(devs) ==
    LET kept == SelectSeq(devs, LAMBDA d : ~d.software)
        candidate(d) ==
            LET g == [GpuCandidate0 EXCEPT
                         !.vendor = d.vendor, !.device = d.device,
                         !.vram_bytes = d.vram,
                         !.is_intel_arc_hint =
                             (d.vendor = VendorIntel)
                             /\ intel_arc_device_heuristic(d.device)]
            IN  IF d.vendor = VendorNvidia \/ d.vendor = VendorAmd
                THEN [g EXCEPT !.is_discrete_hint = TRUE]
                ELSE [g EXCEPT !.is_discrete_hint = Lt(U64Zero, g.vram_bytes)]
    IN  [i \in 1 .. Len(kept) |-> candidate(kept[i])]

\* Windows: one candidate per DXGI adapter without the software flag;
\* d.vram is DedicatedVideoMemory
enumerate_gpus_dxgi(devs) ==
    LET kept == SelectSeq(devs, LAMBDA d : ~d.software)
        candidate(d) ==
            LET g == [GpuCandidate0 EXCEPT
                         !.vendor = d.vendor, !.device = d.device,
                         !.vram_bytes = d.vram,
                         !.is_intel_arc_hint =
                             (d.vendor = VendorIntel)
                             /\ intel_arc_device_heuristic(d.device)]
            IN  IF d.vendor = VendorNvidia \/ d.vendor = VendorAmd
                THEN [g EXCEPT !.is_discrete_hint = TRUE]
                ELSE IF d.vendor = VendorIntel
                THEN [g EXCEPT !.is_discrete_hint = FALSE]
                ELSE [g EXCEPT !.is_discrete_hint = Lt(U64Zero, g.vram_bytes)]
    IN  [i \in 1 .. Len(kept) |-> candidate(kept[i])]

fill_hw_facts_platform_windows(e) ==
    LET h == probed_hw(e)
        gs == enumerate_gpus_dxgi(e.devices)
        b == pick_best_gpu_windows(gs)
    IN  IF gs = <<>>
        THEN [h EXCEPT !.gpu_kind = GpuNone]
        ELSE LET h1 == [h EXCEPT !.is_intel_arc =
                           (b.vendor = VendorIntel) /\ b.is_intel_arc_hint]
             IN  IF b.is_discrete_hint
                 THEN [h1 EXCEPT !.gpu_kind = Discrete,
                                 !.has_discrete_gpu = TRUE,
                                 !.vram_bytes = b.vram_bytes]
                 ELSE [h1 EXCEPT !.gpu_kind = Integrated,
                                 !.has_discrete_gpu = FALSE,
                                 !.vram_bytes = U64Zero]

\* macOS: one candidate per IOPCIDevice of the display class; d.vram is the
\* property VRAM,totalsize (0 when absent)
enumerate_gpus_iokit(devs) ==
    LET kept == SelectSeq(devs, LAMBDA d : d.is_gpu)
        candidate(d) ==
            LET g == [GpuCandidateMac0 EXCEPT
                         !.vendor = d.vendor, !.device = d.device,
                         !.vram_bytes = d.vram]
            IN  IF d.vendor = VendorNvidia \/ d.vendor = VendorAmd
                THEN [g EXCEPT !.is_discrete_hint = TRUE]
                ELSE IF d.vendor = VendorIntel
                THEN [g EXCEPT !.is_discrete_hint = FALSE]
                ELSE g
    IN  [i \in 1 .. Len(kept) |-> candidate(kept[i])]

gpus_mac(e) == IF e.arm64 THEN <<>> ELSE enumerate_gpus_iokit(e.devices)

fill_hw_facts_platform_mac(e) ==
    LET h == probed_hw(e)
        gs == gpus_mac(e)
        b == pick_best_gpu_mac(gs)
    IN  IF e.arm64
        THEN [h EXCEPT !.is_apple_silicon = TRUE, !.gpu_kind = Unified,
                       !.has_discrete_gpu = FALSE]
        ELSE IF gs = <<>>
        THEN [h EXCEPT !.gpu_kind = GpuNone]
        ELSE IF b.is_discrete_hint
        THEN [h EXCEPT !.gpu_kind = Discrete, !.has_discrete_gpu = TRUE,
                       !.vram_bytes = b.vram_bytes]
        ELSE [h EXCEPT !.gpu_kind = Integrated, !.has_discrete_gpu = FALSE,
                       !.vram_bytes = U64Zero]

\* A lower-cased name is kept as the set of the search words that occur in
\* it, so that name.find(w) != npos is w \in name.
contains_any(haystack, needles) == \E needle \in needles : needle \in haystack

apply_vendor_device_hints(gpu, vendor_lower, device_lower, treat_virtual_vendor_as_virtual) ==
    LET g1 == IF \/ "nvidia" \in vendor_lower
                 \/ "advanced micro devices" \in vendor_lower
                 \/ "amd" \in vendor_lower
                 \/ "nvidia" \in device_lower
                 \/ "amd" \in device_lower
                 \/ "radeon" \in device_lower
                 \/ "geforce" \in device_lower
                 \/ "quadro" \in device_lower
              THEN [gpu EXCEPT !.is_discrete_hint = TRUE]
              ELSE gpu
        g2 == IF \/ /\ treat_virtual_vendor_as_virtual
                    /\ contains_any(vendor_lower,
                           {"red hat", "vmware", "virtualbox", "bochs",
                            "cirrus"})
                 \/ contains_any(device_lower,
                        {"qxl", "virtio", "vmware", "virtualbox", "bochs",
                         "cirrus"})
              THEN [g1 EXCEPT !.is_virtual_hint = TRUE]
              ELSE g1
    IN  IF "arc" \in device_lower
        THEN [g2 EXCEPT !.is_intel_arc_hint = TRUE]
        ELSE g2

\* variant: the discrete branch sets the kind only
apply_gpu_candidate_to_hw_kind_only(h, b) ==
    LET h1 == [h EXCEPT !.is_intel_arc = b.is_intel_arc_hint]
    IN  IF b.is_discrete_hint
        THEN [h1 EXCEPT !.gpu_kind = Discrete]
        ELSE IF b.is_virtual_hint
        THEN [h1 EXCEPT !.gpu_kind = GpuNone, !.has_discrete_gpu = FALSE]
        ELSE [h1 EXCEPT !.gpu_kind = Integrated, !.has_discrete_gpu = FALSE]

apply_gpu_candidate_to_hw(h, b) ==
    LET h1 == [h EXCEPT !.is_intel_arc = b.is_intel_arc_hint]
    IN  IF b.is_discrete_hint
        THEN [h1 EXCEPT !.gpu_kind = Discrete, !.has_discrete_gpu = TRUE]
        ELSE IF b.is_virtual_hint
        THEN [h1 EXCEPT !.gpu_kind = GpuNone, !.has_discrete_gpu = FALSE]
        ELSE [h1 EXCEPT !.gpu_kind = Integrated, !.has_discrete_gpu = FALSE]

\* FreeBSD: one candidate per pciconf record of the display class
gpus_freebsd(e) ==
    LET kept == SelectSeq(e.devices, LAMBDA d : d.is_gpu)
    IN  [i \in 1 .. Len(kept) |->
            apply_vendor_device_hints(GpuCandidateBsd0, kept[i].vendor,
                                      kept[i].device, FALSE)]

fill_hw_facts_platform_freebsd(e) ==
    LET h == probed_hw(e)
        scored == gpus_freebsd(e)
    IN  IF scored = <<>>
        THEN [h EXCEPT !.gpu_kind = GpuNone]
        ELSE apply_gpu_candidate_to_hw(h, pick_best_gpu_bsd(scored))

\* DragonFly: as FreeBSD, with the virtual vendors counted as virtual
gpus_dragonfly(e) ==
    LET kept == SelectSeq(e.devices, LAMBDA d : d.is_gpu)
    IN  [i \in 1 .. Len(kept) |->
            apply_vendor_device_hints(GpuCandidateBsd0, kept[i].vendor,
                                      kept[i].device, TRUE)]

fill_hw_facts_platform_dragonfly(e) ==
    LET h == probed_hw(e)
        scored == gpus_dragonfly(e)
    IN  IF scored = <<>>
        THEN [h EXCEPT !.gpu_kind = GpuNone]
        ELSE apply_gpu_candidate_to_hw(h, pick_best_gpu_bsd(scored))

\* a platform without an adapter
fill_hw_facts_platform_fallback(e) == HwFacts0

Platforms == {"linux", "windows", "mac", "freebsd", "dragonfly", "other"}

enumerated_gpus(p, e) ==
    CASE p = "linux" -> gpus_linux(e)
      [] p = "windows" -> enumerate_gpus_dxgi(e.devices)
      [] p = "mac" -> gpus_mac(e)
      [] p = "freebsd" -> gpus_freebsd(e)
      [] p = "dragonfly" -> gpus_dragonfly(e)
      [] OTHER -> <<>>

pick_best_gpu(p, gs) ==
    CASE p = "linux" -> pick_best_gpu_linux(gs)
      [] p = "windows" -> pick_best_gpu_windows(gs)
      [] p = "mac" -> pick_best_gpu_mac(gs)
      [] p = "freebsd" -> pick_best_gpu_bsd(gs)
      [] p = "dragonfly" -> pick_best_gpu_bsd(gs)
      [] OTHER -> <<>>

\* the fill_hw_facts_platform the build of platform p links
fill_hw_facts_platform(p, e) ==
    CASE p = "linux" -> fill_hw_facts_platform_linux(e)
      [] p = "windows" -> fill_hw_facts_platform_windows(e)
      [] p = "mac" -> fill_hw_facts_platform_mac(e)
      [] p = "freebsd" -> fill_hw_facts_platform_freebsd(e)
      [] p = "dragonfly" -> fill_hw_facts_platform_dragonfly(e)
      [] OTHER -> fill_hw_facts_platform_fallback(e)

detect_caste(p, e) == classify_caste(fill_hw_facts_platform(p, e))

detect_caste_word(p, e) == caste_name(detect_caste(p, e).caste)

(***************************************************************************)
(* What the machine reports.                                               *)
(***************************************************************************)
SeqUpTo(S, n) == UNION {[1 .. k -> S] : k \in 0 .. n}

DetVram == {U64Zero, MiB(512), GiB(8), GiB(24)}

\* device ids: Arc A770, Arc A-series mobile, Tiger Lake Xe
IntelDevices == {22176, 22419, 39497}

PciDevice(v, d, m) == [vendor |-> v, device |-> d, vram |-> m]

LinuxDevices ==
    {PciDevice(0, 0, U64Zero), PciDevice(VendorNvidia, 9860, U64Zero),
     PciDevice(4660, 4369, U64Zero)}
    \cup {PciDevice(VendorAmd, 29772, m) : m \in DetVram}
    \cup {PciDevice(VendorIntel, d, U64Zero) : d \in IntelDevices}

WindowsDevices ==
    {PciDevice(v, 9860, m) @@ [software |-> FALSE] :
        v \in {VendorNvidia, VendorAmd, 4660}, m \in DetVram}
    \cup {PciDevice(VendorIntel, d, m) @@ [software |-> FALSE] :
             d \in {22176, 39497}, m \in DetVram}
    \cup {PciDevice(5140, 140, U64Zero) @@ [software |-> TRUE]}

MacDevices ==
    {PciDevice(v, 26600, m) @@ [is_gpu |-> TRUE] :
        v \in {VendorNvidia, VendorAmd, VendorIntel, 4660}, m \in DetVram}
    \cup {PciDevice(VendorIntel, 40173, U64Zero) @@ [is_gpu |-> FALSE]}

BsdDevice(g, v, d) == [is_gpu |-> g, vendor |-> v, device |-> d]

BsdDevices ==
    {BsdDevice(FALSE, {}, {}),
     BsdDevice(TRUE, {"nvidia"}, {"geforce"}),
     BsdDevice(TRUE, {"advanced micro devices", "amd"}, {"radeon"}),
     BsdDevice(TRUE, {"advanced micro devices", "amd"}, {"arc"}),
     BsdDevice(TRUE, {}, {}),
     BsdDevice(TRUE, {}, {"arc"}),
     BsdDevice(TRUE, {"red hat"}, {"qxl"}),
     BsdDevice(TRUE, {"red hat"}, {}),
     BsdDevice(TRUE, {"vmware"}, {"vmware", "radeon"})}

DevicesOf(p) ==
    CASE p = "linux" -> LinuxDevices
      [] p = "windows" -> WindowsDevices
      [] p = "mac" -> MacDevices
      [] p = "freebsd" -> BsdDevices
      [] p = "dragonfly" -> BsdDevices
      [] OTHER -> {}

Probes == [ram : {U64Zero, GiB(16), GiB(64)}, cpu : {<<0, 0>>, <<8, 16>>}]

Envs(p) ==
    {[ram |-> q.ram, cores |-> q.cpu[1], threads |-> q.cpu[2],
      devices |-> ds, nvml |-> n, arm64 |-> a] :
        q \in Probes, ds \in SeqUpTo(DevicesOf(p), MaxGpus),
        n \in (IF p = "linux" THEN {U64Zero, GiB(8), GiB(24)}
               ELSE {U64Zero}),
        a \in (IF p = "mac" THEN BOOLEAN ELSE {FALSE})}

(***************************************************************************)
(* A detection run: main calls detect_hw_facts and detect_caste, then      *)
(* prints the word.                                                        *)
(***************************************************************************)
InitDetect ==
    /\ platform \in Platforms
    /\ env \in Envs(platform)
    /\ gpus = <<>>
    /\ best = <<>>
    /\ printed = ""
    /\ hw = HwFacts0
    /\ out = CasteResult0
    /\ pc = "boot"
    /\ word = [t \in Threads |-> ""]
    /\ frame = [t \in Threads |-> [pc |-> "idle"]]
    /\ outv = [t \in Threads |-> CasteResult0]
    /\ log = {}
    /\ ncalls = 0

DetCalls == <<word, frame, outv, log, ncalls>>

\* detect_hw_facts(): the record of the adapter; the candidates and the
\* chosen one are kept for inspection
DetectHwFacts ==
    /\ pc = "boot"
    /\ gpus' = enumerated_gpus(platform, env)
    /\ best' = pick_best_gpu(platform, gpus')
    /\ hw' = fill_hw_facts_platform(platform, env)
    /\ pc' = "facts"
    /\ UNCHANGED <<platform, env, printed, out>>
    /\ UNCHANGED DetCalls

DetectCaste ==
    /\ pc = "facts"
    /\ out' = detect_caste(platform, env)
    /\ pc' = "caste"
    /\ UNCHANGED <<platform, env, gpus, best, printed, hw>>
    /\ UNCHANGED DetCalls

DetectCasteWord ==
    /\ pc = "caste"
    /\ printed' = detect_caste_word(platform, env)
    /\ pc' = "word"
    /\ UNCHANGED <<platform, env, gpus, best, hw, out>>
    /\ UNCHANGED DetCalls

NextDetect == DetectHwFacts \/ DetectCaste \/ DetectCasteWord

SpecDetect == InitDetect /\ [][NextDetect]_vars

(***************************************************************************)
(* Properties.  Thresholds are written as the specification states them.   *)
(***************************************************************************)
Le(a, b) == ~Lt(b, a)

SevenAndHalfGiB == MiB(7680)

DiscreteSignal(h) == h.has_discrete_gpu \/ h.gpu_kind = Discrete

BindingCpu(h) ==
    \/ h.physical_cores \in 1 .. 5
    \/ h.physical_cores <= 0 /\ h.logical_threads \in 1 .. 11

VramTier(v) ==
    IF Lt(v, GiB(2)) THEN Mini
    ELSE IF Lt(v, GiB(6)) THEN User
    ELSE IF Lt(v, GiB(16)) THEN Developer
    ELSE IF Lt(v, GiB(24)) THEN Workstation
    ELSE Rig

RamTier(r) ==
    IF Ge(r, GiB(64)) THEN Rig
    ELSE IF Ge(r, GiB(32)) THEN Workstation
    ELSE IF Ge(r, GiB(24)) THEN Developer
    ELSE User

RamCeiling(r) ==
    IF Lt(r, GiB(24)) THEN User
    ELSE IF Lt(r, GiB(32)) THEN Developer
    ELSE IF Lt(r, GiB(64)) THEN Workstation
    ELSE Rig

\* C1: with ram_bytes < 7.5 GiB the caste is Mini, whatever the other fields.
C1_BelowFloorIsMini ==
    (pc = "done" /\ Lt(hw.ram_bytes, SevenAndHalfGiB)) => out.caste = Mini

C1_Witness ==
    /\ pc = "done"
    /\ hw.ram_bytes = Sub(SevenAndHalfGiB, U64One)
    /\ DiscreteSignal(hw) /\ hw.vram_bytes = U64Max /\ hw.physical_cores = 6
    /\ out.caste = Mini

\* C2: with ram_bytes >= 7.5 GiB the caste is never Mini, even when the VRAM
\* tier or the CPU ceiling is Mini.
C2_AtFloorNeverMini ==
    (pc = "done" /\ Ge(hw.ram_bytes, SevenAndHalfGiB)) => out.caste >= User

C2_Witness ==
    /\ pc = "done"
    /\ hw.ram_bytes = SevenAndHalfGiB
    /\ DiscreteSignal(hw) /\ hw.vram_bytes = U64Zero
    /\ hw.physical_cores = 1
    /\ out.caste = User

\* C3: discrete signal, ram_bytes >= 64 GiB, physical_cores >= 6 and
\* vram_bytes >= 2 GiB: the caste is the VRAM tier (User from 2 GiB,
\* Developer from 6 GiB, Workstation from 16 GiB, Rig from 24 GiB).
C3_DiscreteVramTiers ==
    (/\ pc = "done"
     /\ DiscreteSignal(hw)
     /\ Ge(hw.ram_bytes, GiB(64))
     /\ hw.physical_cores >= 6
     /\ Ge(hw.vram_bytes, GiB(2)))
        => out.caste = VramTier(hw.vram_bytes)

C3_Witness ==
    /\ pc = "done"
    /\ hw.has_discrete_gpu /\ hw.gpu_kind # Discrete
    /\ hw.ram_bytes = GiB(64) /\ hw.physical_cores = 6
    /\ hw.vram_bytes = GiB(16)
    /\ out.caste = Workstation

\* C4: the caste never exceeds the RAM ceiling (User below 24 GiB, Developer
\* below 32 GiB, Workstation below 64 GiB); 24 GiB of VRAM on 16 GiB of RAM
\* is User.
C4_RamCeiling ==
    pc = "done" =>
        /\ out.caste <= RamCeiling(hw.ram_bytes)
        /\ (/\ DiscreteSignal(hw)
            /\ hw.vram_bytes = GiB(24)
            /\ hw.ram_bytes = GiB(16)) => out.caste = User

C4_Witness ==
    /\ pc = "done"
    /\ DiscreteSignal(hw) /\ hw.vram_bytes = GiB(24) /\ hw.ram_bytes = GiB(16)
    /\ hw.physical_cores = 6
    /\ out.caste = User

\* C5: no discrete signal, is_apple_silicon or gpu_kind Unified, CPU ceiling
\* not binding, ram_bytes >= 7.5 GiB: the caste is the RAM tier, whatever
\* vram_bytes is.
C5_UnifiedRamTiers ==
    (/\ pc = "done"
     /\ ~DiscreteSignal(hw)
     /\ (hw.is_apple_silicon \/ hw.gpu_kind = Unified)
     /\ ~BindingCpu(hw)
     /\ Ge(hw.ram_bytes, SevenAndHalfGiB))
        => out.caste = RamTier(hw.ram_bytes)

C5_Witness ==
    /\ pc = "done"
    /\ ~DiscreteSignal(hw) /\ hw.is_apple_silicon /\ hw.gpu_kind = Unified
    /\ hw.physical_cores = 6
    /\ hw.ram_bytes = GiB(32) /\ hw.vram_bytes = U64Max
    /\ out.caste = Workstation

\* C6: ram_bytes >= 7.5 GiB and a binding CPU ceiling: the caste is exactly
\* User, whatever the GPU kind, VRAM and RAM size.
C6_BindingCpuIsUser ==
    (/\ pc = "done"
     /\ Ge(hw.ram_bytes, SevenAndHalfGiB)
     /\ BindingCpu(hw))
        => out.caste = User

C6_Witness ==
    /\ pc = "done"
    /\ hw.ram_bytes = GiB(64) /\ DiscreteSignal(hw) /\ hw.vram_bytes = GiB(24)
    /\ hw.physical_cores = 3 /\ hw.logical_threads = 7
    /\ out.caste = User

\* C7: monotonicity in VRAM: lowering vram_bytes alone never raises the
\* caste.
C7_VramMonotone ==
    pc = "done" =>
        \A v \in VramSamples :
            Le(v, hw.vram_bytes) =>
                classify_caste([hw EXCEPT !.vram_bytes = v]).caste <= out.caste

C7_Witness ==
    /\ pc = "done"
    /\ DiscreteSignal(hw) /\ hw.vram_bytes = GiB(24)
    /\ out.caste = Rig
    /\ \E v \in VramSamples :
         /\ Lt(v, hw.vram_bytes)
         /\ classify_caste([hw EXCEPT !.vram_bytes = v]).caste < out.caste

\* C8: calls with identical facts return the identical caste and reason,
\* whatever other calls ran before or between them, and the fact record of
\* the caller is unchanged when the call returns.
C8_Deterministic ==
    /\ \A e1, e2 \in log : e1.arg = e2.arg => e1.out = e2.out
    /\ \A e \in log : e.hw = e.arg

C8_Witness ==
    \E e1, e2, e3 \in log :
        /\ e1.id < e3.id /\ e3.id < e2.id
        /\ e1.arg = e2.arg /\ e3.arg # e1.arg
        /\ e1.out = e2.out /\ e3.out # e1.out

\* C9: caste_name maps Mini, User, Developer, Workstation, Rig one-to-one
\* onto "Mini", "User", "Developer", "Workstation", "Rig"; a name leads back
\* to the caste it came from.
ExpectedName ==
    (Mini :> "Mini") @@ (User :> "User") @@ (Developer :> "Developer")
        @@ (Workstation :> "Workstation") @@ (Rig :> "Rig")

CasteOfName(n) == CHOOSE c \in Caste : caste_name(c) = n

C9_NameBijection ==
    \A t \in Threads :
        frame[t].pc = "named" =>
            LET c == frame[t].result.caste
            IN  /\ word[t] = ExpectedName[c]
                /\ \A d \in Caste : caste_name(d) = word[t] => d = c
                /\ CasteOfName(word[t]) = c
                /\ caste_name(CasteOfName(word[t])) = word[t]

C9_Witness ==
    /\ frame["t1"].pc = "named" /\ frame["t2"].pc = "named"
    /\ frame["t1"].result.caste = Workstation /\ word["t1"] = "Workstation"
    /\ frame["t2"].result.caste = Developer /\ word["t2"] = "Developer"

\* C10: classify_caste is total: every fact record, garbage included, gets
\* one of the five castes and a caste_name other than "Unknown".
C10_Total ==
    pc = "done" =>
        /\ out.caste \in Caste
        /\ caste_name(out.caste) # "Unknown"

C10_Witness ==
    /\ pc = "done"
    /\ hw.ram_bytes = U64Max /\ hw.vram_bytes = U64Max
    /\ hw.physical_cores = -1 /\ hw.logical_threads = -1
    /\ hw.gpu_kind = GpuNone /\ hw.has_discrete_gpu /\ hw.is_apple_silicon
    /\ out.caste = Rig

(***************************************************************************)
(* Detection runs.                                                         *)
(***************************************************************************)
Classified == pc \in {"caste", "word"}

Detected == pc \in {"facts", "caste", "word"}

Adapters == {"linux", "windows", "mac", "freebsd", "dragonfly"}

\* C11: when detection yields nothing (the default-constructed record, which
\* the fallback fill_hw_facts_platform always returns), detect_caste returns
\* Mini and detect_caste_word returns "Mini"
C11_NothingDetectedIsMini ==
    /\ Detected /\ platform = "other" => hw = HwFacts0
    /\ Classified /\ hw = HwFacts0 => out.caste = Mini
    /\ pc = "word" /\ hw = HwFacts0 => printed = "Mini"

C11_Witness ==
    /\ pc = "word"
    /\ platform = "other"
    /\ env.ram = GiB(64)
    /\ hw = HwFacts0
    /\ printed = "Mini"

\* C12: on every platform, when at least one candidate carries a discrete
\* hint, pick_best_gpu returns a candidate with a discrete hint, and the
\* facts have gpu_kind Discrete and has_discrete_gpu true
C12_DiscreteHintFirst ==
    Detected /\ (\E i \in 1 .. Len(gpus) : gpus[i].is_discrete_hint)
        => /\ best.is_discrete_hint
           /\ hw.gpu_kind = Discrete
           /\ hw.has_discrete_gpu

\* an Arc-class Intel adapter with 24 GiB of dedicated memory and no discrete
\* hint, enumerated before a discrete adapter of unknown VRAM
C12_Witness ==
    /\ pc = "facts"
    /\ platform = "windows"
    /\ Len(gpus) = 2
    /\ ~gpus[1].is_discrete_hint
    /\ gpus[1].is_intel_arc_hint
    /\ gpus[1].vram_bytes = GiB(24)
    /\ gpus[2].is_discrete_hint
    /\ gpus[2].vram_bytes = U64Zero
    /\ best = gpus[2]
    /\ hw.gpu_kind = Discrete

\* C13: on Linux, Windows and macOS, between two candidates with the same
\* discrete hint the one with strictly more vram_bytes is selected whatever
\* their vendors: the selected candidate never has less VRAM than another
\* candidate with the same discrete hint
C13_VramBeforeVendor ==
    Detected /\ platform \in {"linux", "windows", "mac"}
        => \A i \in 1 .. Len(gpus) :
               gpus[i].is_discrete_hint = best.is_discrete_hint
                   => ~Lt(best.vram_bytes, gpus[i].vram_bytes)

\* C14: every record of a platform adapter has has_discrete_gpu true exactly
\* when gpu_kind is Discrete, and vram_bytes 0 whenever gpu_kind is not
\* Discrete, for every set of candidates including the empty one
C14_FactsConsistent ==
    Detected /\ platform \in Adapters
        => /\ hw.has_discrete_gpu <=> hw.gpu_kind = Discrete
           /\ hw.gpu_kind # Discrete => hw.vram_bytes = U64Zero

\* an Intel adapter reporting 24 GiB of dedicated memory is selected: the
\* record is Integrated with vram_bytes 0
C14_Witness ==
    /\ pc = "facts"
    /\ platform = "windows"
    /\ gpus # <<>>
    /\ ~best.is_discrete_hint
    /\ best.vram_bytes = GiB(24)
    /\ hw.gpu_kind = Integrated
    /\ ~hw.has_discrete_gpu
    /\ hw.vram_bytes = U64Zero

(***************************************************************************)
(* The pipeline of classify_caste, as the specification states it.         *)
(***************************************************************************)
MaxOf(a, b) == IF a >= b THEN a ELSE b

MinOf(a, b) == IF a <= b THEN a ELSE b

CpuCeiling(h) ==
    IF h.physical_cores > 0
    THEN IF h.physical_cores <= 3 THEN Mini
         ELSE IF h.physical_cores <= 5 THEN User
         ELSE Rig
    ELSE IF h.logical_threads > 0
    THEN IF h.logical_threads <= 7 THEN Mini
         ELSE IF h.logical_threads <= 11 THEN User
         ELSE Rig
    ELSE Rig

UnifiedSignal(h) == h.is_apple_silicon \/ h.gpu_kind = Unified

BaseTier(h) ==
    IF DiscreteSignal(h) THEN VramTier(h.vram_bytes)
    ELSE IF UnifiedSignal(h) THEN RamTier(h.ram_bytes)
    ELSE User

ArcBumps(h) ==
    ~DiscreteSignal(h) /\ h.is_intel_arc /\ Ge(h.ram_bytes, GiB(16))

BumpedBase(h) ==
    IF ArcBumps(h) THEN MaxOf(BaseTier(h), Developer) ELSE BaseTier(h)

\* the frame of classify_caste(h) after the base step, and after the Arc step
AfterBase(h) == classify_base(classify_floor(classify_enter(h)))

AfterArc(h) == classify_arc(AfterBase(h))

\* C15: with ram_bytes >= 7.5 GiB the caste is
\* max(User, min(B, RAM ceiling, CPU ceiling)), B the base after the Arc
\* bump: the User floor is restored after both caps
C15_Pipeline ==
    pc = "done" /\ Ge(hw.ram_bytes, SevenAndHalfGiB)
        => /\ out.caste =
                  MaxOf(User, MinOf(BumpedBase(hw),
                                    MinOf(RamCeiling(hw.ram_bytes),
                                          CpuCeiling(hw))))
           /\ out.caste =
                  max_caste(User,
                      min_caste(AfterArc(hw).base,
                          min_caste(ram_cap(hw.ram_bytes),
                                    cpu_cap(hw.physical_cores,
                                            hw.logical_threads))))

\* a VRAM tier of Rig under a RAM ceiling of Developer and a CPU ceiling of
\* Mini: the caps give Mini, the restoration gives User
C15_Witness ==
    /\ pc = "done"
    /\ hw.ram_bytes = GiB(24)
    /\ DiscreteSignal(hw)
    /\ hw.vram_bytes = GiB(24)
    /\ hw.physical_cores = 3
    /\ out.caste = User
    /\ out.reason = <<"discrete GPU VRAM caste", "; RAM cap applied",
                      "; CPU cap applied">>

BaseLabels ==
    {"discrete GPU VRAM caste", "unified memory (Apple Silicon) caste by RAM",
     "integrated GPU caste", "no discrete GPU detected"}

ArcFragments ==
    {"; Arc-class iGPU with >=16GB RAM => Developer floor",
     "; Arc-class iGPU but <16GB RAM => no bump"}

BaseLabel(h) ==
    IF DiscreteSignal(h) THEN "discrete GPU VRAM caste"
    ELSE IF UnifiedSignal(h) THEN "unified memory (Apple Silicon) caste by RAM"
    ELSE IF h.gpu_kind = Integrated THEN "integrated GPU caste"
    ELSE "no discrete GPU detected"

\* C16: the base rule is chosen by strict priority (discrete signal, then
\* Apple Silicon or Unified, then Integrated, then none) and exactly one rule
\* fires; with ram_bytes >= 7.5 GiB the reason begins with the label of that
\* rule and holds no other base label
C16_BasePriority ==
    pc = "done" /\ Ge(hw.ram_bytes, SevenAndHalfGiB)
        => /\ AfterBase(hw).base = BaseTier(hw)
           /\ out.reason # <<>>
           /\ out.reason[1] = BaseLabel(hw)
           /\ \A i \in 2 .. Len(out.reason) : out.reason[i] \notin BaseLabels

\* both signals at once: Apple Silicon with Unified memory and a discrete flag
C16_Witness ==
    /\ pc = "done"
    /\ hw.has_discrete_gpu /\ hw.is_apple_silicon /\ hw.gpu_kind = Unified
    /\ hw.ram_bytes = GiB(64)
    /\ hw.vram_bytes = GiB(6)
    /\ hw.physical_cores = 6
    /\ out.caste = Developer
    /\ out.reason = <<"discrete GPU VRAM caste">>

\* C17: the two discrete signals are interchangeable: with has_discrete_gpu
\* true and any gpu_kind, caste and reason are those of the record with
\* has_discrete_gpu false and gpu_kind Discrete, the other fields equal
C17_DiscreteSignalsEqual ==
    pc = "done" /\ hw.has_discrete_gpu
        => out = classify_caste([hw EXCEPT !.has_discrete_gpu = FALSE,
                                           !.gpu_kind = Discrete])

C17_Witness ==
    /\ pc = "done"
    /\ hw.has_discrete_gpu /\ hw.gpu_kind = Integrated /\ hw.is_intel_arc
    /\ hw.ram_bytes = GiB(64)
    /\ hw.vram_bytes = GiB(24)
    /\ hw.physical_cores = 6
    /\ out.caste = Rig
    /\ out.reason = <<"discrete GPU VRAM caste">>

\* C18: the Arc step: without a discrete signal, with is_intel_arc and
\* ram_bytes >= 16 GiB the value after the step is max(base, Developer); with
\* is_intel_arc false or ram_bytes < 16 GiB it is the base; it is never lower
\* than the base
C18_ArcBump ==
    pc = "done" /\ Ge(hw.ram_bytes, SevenAndHalfGiB)
        => LET before == AfterBase(hw).base
               after == AfterArc(hw).base
           IN  /\ ArcBumps(hw) => after = MaxOf(before, Developer)
               /\ ~hw.is_intel_arc \/ Lt(hw.ram_bytes, GiB(16))
                      => after = before
               /\ after >= before

\* an Arc-class integrated GPU with 24 GiB: the base User is raised to
\* Developer and survives the caps
C18_Witness ==
    /\ pc = "done"
    /\ ~DiscreteSignal(hw) /\ ~hw.is_apple_silicon
    /\ hw.gpu_kind = Integrated /\ hw.is_intel_arc
    /\ hw.ram_bytes = GiB(24)
    /\ hw.physical_cores = 6
    /\ AfterBase(hw).base = User
    /\ AfterArc(hw).base = Developer
    /\ out.caste = Developer

\* C19: with a discrete signal, is_intel_arc has no influence: the record
\* with is_intel_arc flipped gives the same caste and reason, and the reason
\* holds no Arc fragment
C19_ArcIgnoredWhenDiscrete ==
    pc = "done" /\ DiscreteSignal(hw)
        => /\ out = classify_caste([hw EXCEPT !.is_intel_arc = ~@])
           /\ \A i \in 1 .. Len(out.reason) : out.reason[i] \notin ArcFragments

\* a discrete GPU of the User tier with is_intel_arc and 64 GiB of RAM stays
\* User
C19_Witness ==
    /\ pc = "done"
    /\ hw.gpu_kind = Discrete /\ ~hw.has_discrete_gpu /\ hw.is_intel_arc
    /\ hw.ram_bytes = GiB(64)
    /\ hw.vram_bytes = Sub(GiB(6), U64One)
    /\ hw.physical_cores = 6
    /\ out.caste = User
    /\ out.reason = <<"discrete GPU VRAM caste">>

\* C20: ram_bytes >= 7.5 GiB, no discrete signal, not Apple Silicon, gpu_kind
\* Integrated or None, not Arc: the caste is exactly User for every RAM size
\* and CPU count
C20_PlainGpuIsUser ==
    (/\ pc = "done"
     /\ Ge(hw.ram_bytes, SevenAndHalfGiB)
     /\ ~DiscreteSignal(hw)
     /\ ~hw.is_apple_silicon
     /\ hw.gpu_kind \in {Integrated, GpuNone}
     /\ ~hw.is_intel_arc)
        => out.caste = User

C20_Witness ==
    /\ pc = "done"
    /\ hw.ram_bytes = U64Max
    /\ ~hw.has_discrete_gpu /\ ~hw.is_apple_silicon /\ ~hw.is_intel_arc
    /\ hw.gpu_kind = Integrated
    /\ hw.physical_cores = 6 /\ hw.logical_threads = 12
    /\ out.caste = User
    /\ out.reason = <<"integrated GPU caste">>

(***************************************************************************)
(* CPU ceiling, reason fragments, floor, monotonicity.                     *)
(***************************************************************************)
\* the frame of classify_caste(h) at return
AtReturn(h) == classify_run(classify_enter(h))

\* C21: with physical_cores > 0 the CPU ceiling depends on physical_cores
\* alone (1..3 Mini, 4..5 User, 6 and more no cap) whatever logical_threads
\* is; with physical_cores <= 0 and logical_threads > 0 it depends on
\* logical_threads with doubled thresholds (1..7 Mini, 8..11 User, 12 and
\* more no cap)
C21_CpuCeilingSelection ==
    pc = "done"
        => LET c == hw.physical_cores
               t == hw.logical_threads
               cap == cpu_cap(c, t)
           IN  /\ c > 0 =>
                     /\ cap = (IF c <= 3 THEN Mini
                               ELSE IF c <= 5 THEN User ELSE Rig)
                     /\ \A u \in ThreadSamples : cpu_cap(c, u) = cap
               /\ c <= 0 /\ t > 0 =>
                     cap = (IF t <= 7 THEN Mini
                            ELSE IF t <= 11 THEN User ELSE Rig)
               /\ Ge(hw.ram_bytes, SevenAndHalfGiB) => AtReturn(hw).cap_cpu = cap

\* cores unknown, 8 threads: the ceiling is User, taken from the threads
C21_Witness ==
    /\ pc = "done"
    /\ hw.physical_cores = 0 /\ hw.logical_threads = 8
    /\ hw.ram_bytes = GiB(64)
    /\ DiscreteSignal(hw) /\ hw.vram_bytes = GiB(24)
    /\ AtReturn(hw).cap_cpu = User
    /\ out.caste = User

\* C22: with physical_cores <= 0 and logical_threads <= 0 the CPU ceiling is
\* Rig, the caste is what RAM and GPU alone give, and the reason does not
\* contain "CPU cap applied"
C22_UnknownCpuNoCap ==
    pc = "done" /\ hw.physical_cores <= 0 /\ hw.logical_threads <= 0
        => /\ cpu_cap(hw.physical_cores, hw.logical_threads) = Rig
           /\ out.caste =
                  (IF Lt(hw.ram_bytes, SevenAndHalfGiB) THEN Mini
                   ELSE MaxOf(User, MinOf(BumpedBase(hw),
                                          RamCeiling(hw.ram_bytes))))
           /\ \A i \in 1 .. Len(out.reason) :
                  out.reason[i] # "; CPU cap applied"

\* garbage negatives with a workstation-class GPU and RAM
C22_Witness ==
    /\ pc = "done"
    /\ hw.physical_cores = -1 /\ hw.logical_threads = -1
    /\ hw.ram_bytes = GiB(32)
    /\ DiscreteSignal(hw) /\ hw.vram_bytes = GiB(24)
    /\ out.caste = Workstation
    /\ out.reason = <<"discrete GPU VRAM caste", "; RAM cap applied">>

ArcFragment(h) ==
    IF ~DiscreteSignal(h) /\ h.is_intel_arc
    THEN IF Ge(h.ram_bytes, GiB(16))
         THEN <<"; Arc-class iGPU with >=16GB RAM => Developer floor">>
         ELSE <<"; Arc-class iGPU but <16GB RAM => no bump">>
    ELSE <<>>

Count(s, x) == Cardinality({i \in 1 .. Len(s) : s[i] = x})

\* C23: with ram_bytes >= 7.5 GiB the reason contains "RAM cap applied"
\* exactly when ram_bytes < 64 GiB and "CPU cap applied" exactly when the CPU
\* ceiling is below Rig, each at most once, in that order, after the base
\* label and the optional Arc fragment
C23_CapFragments ==
    pc = "done" /\ Ge(hw.ram_bytes, SevenAndHalfGiB)
        => /\ Count(out.reason, "; RAM cap applied")
                  = (IF Lt(hw.ram_bytes, GiB(64)) THEN 1 ELSE 0)
           /\ Count(out.reason, "; CPU cap applied")
                  = (IF CpuCeiling(hw) # Rig THEN 1 ELSE 0)
           /\ out.reason =
                  <<BaseLabel(hw)>> \o ArcFragment(hw)
                      \o (IF Lt(hw.ram_bytes, GiB(64))
                          THEN <<"; RAM cap applied">> ELSE <<>>)
                      \o (IF CpuCeiling(hw) # Rig
                          THEN <<"; CPU cap applied">> ELSE <<>>)

\* an Arc-class integrated GPU with 16 GiB and 4 cores: the label and all
\* three fragments, in order
C23_Witness ==
    /\ pc = "done"
    /\ hw.ram_bytes = GiB(16)
    /\ ~DiscreteSignal(hw) /\ ~hw.is_apple_silicon /\ hw.is_intel_arc
    /\ hw.gpu_kind = Integrated
    /\ hw.physical_cores = 4
    /\ out.caste = User
    /\ out.reason = <<"integrated GPU caste",
                      "; Arc-class iGPU with >=16GB RAM => Developer floor",
                      "; RAM cap applied", "; CPU cap applied">>

\* C24: with ram_bytes < 7.5 GiB the reason is exactly the floor message,
\* with no base label, Arc fragment or cap fragment, whatever the GPU and CPU
\* fields
C24_FloorBypasses ==
    pc = "done" /\ Lt(hw.ram_bytes, SevenAndHalfGiB)
        => out.reason = <<"RAM < ~7.5GB">>

\* one byte below the floor with every other field at its best
C24_Witness ==
    /\ pc = "done"
    /\ hw.ram_bytes = Sub(SevenAndHalfGiB, U64One)
    /\ hw.gpu_kind = Discrete /\ hw.has_discrete_gpu /\ hw.is_intel_arc
    /\ hw.vram_bytes = U64Max
    /\ hw.physical_cores = 3
    /\ out = [caste |-> Mini, reason |-> <<"RAM < ~7.5GB">>]

\* C25: a discrete GPU with vram_bytes < 2 GiB (0 included) has the VRAM tier
\* Mini as its base, and with ram_bytes >= 7.5 GiB the caste is exactly User,
\* whatever the RAM size, the CPU counts and is_intel_arc
C25_LowVramIsUser ==
    (/\ pc = "done"
     /\ DiscreteSignal(hw)
     /\ Lt(hw.vram_bytes, GiB(2))
     /\ Ge(hw.ram_bytes, SevenAndHalfGiB))
        => /\ caste_from_vram(hw.vram_bytes) = Mini
           /\ AfterBase(hw).base = Mini
           /\ AfterArc(hw).base = Mini
           /\ out.caste = User

\* a discrete GPU of unknown VRAM on a machine with 64 GiB and 6 cores
C25_Witness ==
    /\ pc = "done"
    /\ hw.gpu_kind = Discrete /\ hw.has_discrete_gpu /\ hw.is_intel_arc
    /\ hw.vram_bytes = U64Zero
    /\ hw.ram_bytes = GiB(64)
    /\ hw.physical_cores = 6 /\ hw.logical_threads = 12
    /\ out = [caste |-> User, reason |-> <<"discrete GPU VRAM caste">>]

\* C26: monotonicity in RAM: lowering ram_bytes alone never raises the
\* caste, on every GPU path and with or without is_intel_arc
C26_RamMonotone ==
    pc = "done"
        => \A r \in RamSamples :
               Le(r, hw.ram_bytes)
                   => classify_caste([hw EXCEPT !.ram_bytes = r]).caste
                          <= out.caste

\* an Arc-class integrated GPU at 24 GiB is Developer, and User one byte
\* below
C26_Witness ==
    /\ pc = "done"
    /\ hw.ram_bytes = GiB(24)
    /\ ~DiscreteSignal(hw) /\ ~hw.is_apple_silicon /\ hw.is_intel_arc
    /\ hw.gpu_kind = Integrated
    /\ hw.physical_cores = 6
    /\ out.caste = Developer
    /\ classify_caste([hw EXCEPT !.ram_bytes = Sub(GiB(24), U64One)]).caste
           = User

\* C27: monotonicity in known CPU counts: with 1 <= c1 <= c2 cores the caste
\* for c1 is at most the caste for c2; with physical_cores <= 0 and
\* 1 <= t1 <= t2 threads the caste for t1 is at most the caste for t2
C27_CpuMonotone ==
    pc = "done"
        => /\ \A c \in CoreSamples :
                  1 <= c /\ c <= hw.physical_cores
                      => classify_caste(
                             [hw EXCEPT !.physical_cores = c]).caste
                             <= out.caste
           /\ hw.physical_cores <= 0
                  => \A t \in ThreadSamples :
                         1 <= t /\ t <= hw.logical_threads
                             => classify_caste(
                                    [hw EXCEPT !.logical_threads = t]).caste
                                    <= out.caste

\* cores unknown: 12 threads give Rig, 11 threads give User
C27_Witness ==
    /\ pc = "done"
    /\ hw.physical_cores = 0 /\ hw.logical_threads = 12
    /\ hw.ram_bytes = GiB(64)
    /\ DiscreteSignal(hw) /\ hw.vram_bytes = GiB(24)
    /\ out.caste = Rig
    /\ classify_caste([hw EXCEPT !.logical_threads = 11]).caste = User

ArcIntegrated(h) ==
    /\ ~DiscreteSignal(h)
    /\ ~h.is_apple_silicon
    /\ h.gpu_kind \in {Integrated, GpuNone}
    /\ h.is_intel_arc

\* C28: an Arc-class integrated or unknown GPU: the caste is Developer
\* exactly when ram_bytes >= 24 GiB and the CPU ceiling is not binding, User
\* for 7.5 GiB <= ram_bytes < 24 GiB (from 16 GiB the reason reports the
\* Developer floor although the RAM cap cancels it), and never above
\* Developer
C28_ArcFromTwentyFour ==
    pc = "done" /\ ArcIntegrated(hw)
        => /\ out.caste = Developer
                  <=> Ge(hw.ram_bytes, GiB(24)) /\ ~BindingCpu(hw)
           /\ Ge(hw.ram_bytes, SevenAndHalfGiB) /\ Lt(hw.ram_bytes, GiB(24))
                  => out.caste = User
           /\ Ge(hw.ram_bytes, GiB(16)) /\ Lt(hw.ram_bytes, GiB(24))
                  => /\ AfterArc(hw).base = Developer
                     /\ Len(out.reason) >= 3
                     /\ out.reason[2] =
                            "; Arc-class iGPU with >=16GB RAM => Developer floor"
                     /\ out.reason[3] = "; RAM cap applied"
           /\ out.caste <= Developer

\* one byte below 24 GiB: bumped to Developer, capped back to User
C28_Witness ==
    /\ pc = "done"
    /\ ArcIntegrated(hw) /\ hw.gpu_kind = GpuNone
    /\ hw.ram_bytes = Sub(GiB(24), U64One)
    /\ hw.physical_cores = 6 /\ hw.logical_threads = 12
    /\ AfterArc(hw).base = Developer
    /\ out.caste = User
    /\ out.reason = <<"no discrete GPU detected",
                      "; Arc-class iGPU with >=16GB RAM => Developer floor",
                      "; RAM cap applied">>

(***************************************************************************)
(* The adapters: virtual GPUs on BSD, Arc on Linux and Windows.            *)
(***************************************************************************)
BsdAdapters == {"freebsd", "dragonfly"}

\* C29: on the BSD adapters a selected candidate with a virtual hint and no
\* discrete hint yields gpu_kind None and has_discrete_gpu false; one with a
\* discrete hint yields Discrete even with a virtual hint; pick_best_gpu
\* ranks every discrete-hinted candidate above every other one and, among
\* the others, every non-virtual one above every virtual one
C29_BsdVirtual ==
    Detected /\ platform \in BsdAdapters /\ gpus # <<>>
        => /\ ~best.is_discrete_hint /\ best.is_virtual_hint
                  => hw.gpu_kind = GpuNone /\ ~hw.has_discrete_gpu
           /\ best.is_discrete_hint
                  => hw.gpu_kind = Discrete /\ hw.has_discrete_gpu
           /\ \A i, j \in 1 .. Len(gpus) :
                  /\ gpus[i].is_discrete_hint /\ ~gpus[j].is_discrete_hint
                         => /\ score_bsd(gpus[i]) > score_bsd(gpus[j])
                            /\ best.is_discrete_hint
                  /\ (/\ ~gpus[i].is_discrete_hint /\ ~gpus[j].is_discrete_hint
                      /\ ~gpus[i].is_virtual_hint /\ gpus[j].is_virtual_hint)
                         => /\ score_bsd(gpus[i]) > score_bsd(gpus[j])
                            /\ best.is_discrete_hint \/ ~best.is_virtual_hint

\* an Arc-named adapter enumerated before a Radeon seen under VMware: the
\* candidate with the discrete and the virtual hint is selected and the
\* record is Discrete
C29_Witness ==
    /\ pc = "facts"
    /\ platform = "dragonfly"
    /\ Len(gpus) = 2
    /\ ~gpus[1].is_discrete_hint /\ ~gpus[1].is_virtual_hint
    /\ gpus[1].is_intel_arc_hint
    /\ gpus[2].is_discrete_hint /\ gpus[2].is_virtual_hint
    /\ best = gpus[2]
    /\ hw.gpu_kind = Discrete

====
